---- MODULE Spec2Model ----
(***************************************************************************)
(* Klader (src/app.py): the requisition lifecycle (code issuance, the      *)
(* approve/reject links), the single ledger slot and the ledger lookup     *)
(* that gates the creation of a requisition.                               *)
(*                                                                         *)
(* Python strings are sequences of one-character strings, so that upper(), *)
(* lower(), strip(), the "in" substring test and the regular expressions   *)
(* are computed character by character as the code computes them.          *)
(***************************************************************************)
EXTENDS Integers, Sequences, FiniteSets, TLC

VARIABLES
    requisitions,   \* the rows of table "requisitions" (class Requisition)
    excel_files,    \* the rows of table "excel_files", in upload order
    now,            \* the clock read by datetime.utcnow()
    result,         \* what the handler that ran last answered
    inflight        \* per worker: the request it is in the middle of

vars == <<requisitions, excel_files, now, result, inflight>>

(*************************** bounds of the model ***************************)
\* secrets.choice is restricted to the first NumDrawChars letters of
\* CODE_ALPHABET, and to the first letter in every position but the last.
NumDrawChars == 2
\* Largest primary key of a requisition row.
MaxId == 2
\* Largest value of the clock.
MaxTime == 2
\* Longest run of candidates one call of generate_requisition_code draws.
MaxDraws == 2
\* Most rows of a ledger the lookup is run on.
MaxRows == 2

(******************************* characters ********************************)
LowerChars ==
    <<"a","b","c","d","e","f","g","h","i","j","k","l","m","n","o","p","q",
      "r","s","t","u","v","w","x","y","z","å","ä","ö">>

UpperChars ==
    <<"A","B","C","D","E","F","G","H","I","J","K","L","M","N","O","P","Q",
      "R","S","T","U","V","W","X","Y","Z","Å","Ä","Ö">>

Range(s) == {s[i] : i \in 1..Len(s)}

IndexOf(ch, s) == CHOOSE i \in 1..Len(s) : s[i] = ch

\* str.upper() and str.lower(), one character
ToUpper == [ch \in Range(LowerChars) |-> UpperChars[IndexOf(ch, LowerChars)]]

ToLower == [ch \in Range(UpperChars) |-> LowerChars[IndexOf(ch, UpperChars)]]

UpperChar(ch) == IF ch \in DOMAIN ToUpper THEN ToUpper[ch] ELSE ch

LowerChar(ch) == IF ch \in DOMAIN ToLower THEN ToLower[ch] ELSE ch

upper(s) == [i \in 1..Len(s) |-> UpperChar(s[i])]

lower(s) == [i \in 1..Len(s) |-> LowerChar(s[i])]

\* Python's "sub in s"
Contains(sub, s) ==
    \E i \in 0..(Len(s) - Len(sub)) : SubSeq(s, i + 1, i + Len(sub)) = sub

(**************************** program constants ****************************)
CODE_LENGTH == 8

\* The alphabet with the letter O left in
CODE_ALPHABET_WithO ==
    <<"A","B","C","D","E","F","G","H","J","K","L","M","N","O","P","Q","R",
      "S","T","U","V","W","X","Y","Z","2","3","4","5","6","7","8","9">>

CODE_ALPHABET ==
    <<"A","B","C","D","E","F","G","H","J","K","L","M","N","P","Q","R",
      "S","T","U","V","W","X","Y","Z","2","3","4","5","6","7","8","9">>

\* The three values the code writes into Requisition.status
Vantar == <<"V","ä","n","t","a","r">>

Godkant == <<"G","o","d","k","ä","n","t">>

EjGodkant == <<"E","j"," ","g","o","d","k","ä","n","t">>

\* The needle of the "already handled" test
godkant_needle == <<"g","o","d","k","ä","n","t">>

\* A column that holds NULL / a Python None; a set value t is <<t>>
None == <<>>

(****************************** code issuance ******************************)
\* The codes ''.join(secrets.choice(CODE_ALPHABET) for _ in range(CODE_LENGTH))
\* can yield, the random source restricted as stated at NumDrawChars.
Draws ==
    {[i \in 1..CODE_LENGTH |->
        IF i < CODE_LENGTH THEN CODE_ALPHABET[1] ELSE CODE_ALPHABET[k]] :
     k \in 1..NumDrawChars}

\* The query with its filter lost: every row
RowsWithCode_NoFilter(reqs, code) == reqs

\* Requisition.query.filter_by(code=code): the rows with that code
RowsWithCode(reqs, code) == {r \in reqs : r.code = code}

\* .first(): the row of lowest id among them
First(rows) == CHOOSE r \in rows : \A q \in rows : r.id <= q.id

NoCode == <<>>

\* The test of the loop never finding a row
existing_Never(reqs, code) == FALSE

\* The test of the loop finding whatever row the table holds
existing_AnyRow(reqs, code) == reqs # {}

\* existing = Requisition.query.filter_by(code=code).first(): a row was found
existing(reqs, code) == RowsWithCode(reqs, code) # {}

\* generate_requisition_code, the candidates it draws given as `draws`: the
\* first candidate no row carries; NoCode while the loop has not returned.
RECURSIVE generate_requisition_code(_, _)
generate_requisition_code(draws, reqs) ==
    IF draws = <<>> THEN NoCode
    ELSE IF ~existing(reqs, Head(draws)) THEN Head(draws)
    ELSE generate_requisition_code(Tail(draws), reqs)

\* The runs of candidates one call may draw
DrawRuns == UNION {[1..n -> Draws] : n \in 1..MaxDraws}

\* The primary key the database gives a new row (SQLite rowid: largest + 1)
NextId(reqs) ==
    IF reqs = {} THEN 1
    ELSE (CHOOSE r \in reqs : \A q \in reqs : q.id <= r.id).id + 1

\* The row with decided_at filled at creation, as created_at is
NewRequisition_Stamped(id, code) ==
    [id |-> id, code |-> code, status |-> Vantar, decided_at |-> <<0>>]

\* The row create_requisition builds: status 'Väntar', decided_at not set
NewRequisition(id, code) ==
    [id |-> id, code |-> code, status |-> Vantar, decided_at |-> None]

\* The column without unique=True
UniqueViolation_Off(reqs, code) == FALSE

\* unique=True on Requisition.code: the commit of a second row with the
\* same code raises IntegrityError
UniqueViolation(reqs, code) == RowsWithCode(reqs, code) # {}

(******************************* the decision ******************************)
\* (requisition.status or '')
StatusOrEmpty(status) == IF status = None THEN <<>> ELSE status

\* The test without .lower()
AlreadyHandled_CaseSensitive(status) == Contains(godkant_needle, StatusOrEmpty(status))

\* The test left out
AlreadyHandled_Never(status) == FALSE

\* The test as a comparison with 'Godkänt'
AlreadyHandled_ApprovedOnly(status) == StatusOrEmpty(status) = Godkant

\* 'godkänt' in current_status, current_status the lower-cased status
AlreadyHandled(status) == Contains(godkant_needle, lower(StatusOrEmpty(status)))

\* requisition.status = ...; requisition.decided_at = datetime.utcnow()
Decide(row, status, t) == [row EXCEPT !.status = status, !.decided_at = <<t>>]

\* The status each link writes
StatusOf(op) == IF op = "approve" THEN Godkant ELSE EjGodkant

\* The codes the links are opened with: every code in upper and lower case
DecideCodes == Draws \cup {lower(c) : c \in Draws}

\* What a handler answers: which handler, and the page or status it renders
Res(op, outcome) == [op |-> op, outcome |-> outcome]

(***************************** the ledger lookup ***************************)
\* [A-Z], \d, \s and the separators of [/\s]
UpperAZ == Range(SubSeq(UpperChars, 1, 26))

Digits == {"0","1","2","3","4","5","6","7","8","9"}

WhiteSpace == {" ", "\t", "\n", "\r"}

Separators == WhiteSpace \cup {"/"}

\* How many characters of s, from position i on, lie in cls (a greedy run)
RunLen(s, i, cls) ==
    CHOOSE n \in 0..(Len(s) - i + 1) :
        /\ \A k \in i..(i + n - 1) : s[k] \in cls
        /\ (i + n > Len(s) \/ s[i + n] \notin cls)

\* s[i..i+n-1] exists and lies in cls
AllIn(s, i, n, cls) == i + n - 1 <= Len(s) /\ \A k \in i..(i + n - 1) : s[k] \in cls

\* str.strip()
strip(s) ==
    LET lead  == RunLen(s, 1, WhiteSpace)
        inner == SubSeq(s, lead + 1, Len(s))
        keep  == IF inner = <<>> THEN 0
                 ELSE CHOOSE n \in 1..Len(inner) :
                        /\ inner[n] \notin WhiteSpace
                        /\ \A k \in (n + 1)..Len(inner) : inner[k] \in WhiteSpace
    IN  SubSeq(inner, 1, keep)

\* ".*$" matches from position j: "." takes no newline, "$" stands at the end
\* of the string or before a newline that ends it.
TailMatches(s, j) == \A k \in j..(Len(s) - 1) : s[k] # "\n"

\* Where that match ends
TailEnd(s, j) == IF j <= Len(s) /\ s[Len(s)] = "\n" THEN Len(s) - 1 ELSE Len(s)

\* re.sub(r'^[A-Z]{0,2}\d+\s*', '', s)
StripPrefix(s) ==
    LET ms == {m \in 0..2 : AllIn(s, 1, m, UpperAZ) /\ AllIn(s, m + 1, 1, Digits)}
    IN  IF ms = {} THEN s
        ELSE LET m  == CHOOSE x \in ms : \A y \in ms : y <= x
                 d  == RunLen(s, m + 1, Digits)
                 w  == RunLen(s, m + d + 1, WhiteSpace)
             IN  SubSeq(s, m + d + w + 1, Len(s))

\* re.sub(pattern, '', s) for a pattern that ends in ".*$": everything from
\* the leftmost position a match starts at, to where the match ends, goes.
CutFrom(s, starts) ==
    IF starts = {} THEN s
    ELSE LET i == CHOOSE x \in starts : \A y \in starts : x <= y
         IN  SubSeq(s, 1, i - 1) \o SubSeq(s, TailEnd(s, i + 1) + 1, Len(s))

\* re.sub(r'[/\s]+\d{3,}.*$', '', s)
StripNumericSuffix(s) ==
    CutFrom(s, {i \in 1..Len(s) :
        \E n \in 1..RunLen(s, i, Separators) :
            AllIn(s, i + n, 3, Digits) /\ TailMatches(s, i + n + 3)})

\* re.sub(r'\s+[A-Z]{0,2}\d{6,}.*$', '', s)
StripPhoneSuffix(s) ==
    CutFrom(s, {i \in 1..Len(s) :
        \E n \in 1..RunLen(s, i, WhiteSpace) : \E m \in 0..2 :
            /\ AllIn(s, i + n, m, UpperAZ)
            /\ AllIn(s, i + n + m, 6, Digits)
            /\ TailMatches(s, i + n + m + 6)})

\* A cell pandas read as missing (pd.notna is false)
NaN == <<"NaN">>

\* kundref, kundref_clean and kundref_upper of one row
Kundref(row) == IF row.kundref # NaN THEN row.kundref ELSE <<>>

KundrefClean(kundref) ==
    strip(StripPhoneSuffix(strip(StripNumericSuffix(strip(StripPrefix(kundref))))))

\* The match with person_name.upper() alone, the strip() left out
RowMatches_NoStrip(row, person_name) ==
    Contains(upper(person_name), upper(KundrefClean(Kundref(row))))

\* The row matches: not (search_name not in kundref_upper)
RowMatches(row, person_name) ==
    Contains(strip(upper(person_name)), upper(KundrefClean(Kundref(row))))

(* A cell of the quantity, amount or invoice-date column as pandas hands it  *)
(* over: missing, a number (counted in thousandths, so that 1500 is 1.5), a  *)
(* text, or a date (num is yyyymmdd).                                        *)
Missing == [kind |-> "nan", num |-> 0, text |-> <<>>]

NumCell(m) == [kind |-> "num", num |-> m, text |-> <<>>]

TextCell(s) == [kind |-> "text", num |-> 0, text |-> s]

DateCell(y, m, d) == [kind |-> "date", num |-> y * 10000 + m * 100 + d, text |-> <<>>]

\* pd.notna(cell)
notna(cell) == cell.kind # "nan"

DigitChars == <<"0","1","2","3","4","5","6","7","8","9">>

\* The number a run of decimal digits writes
RECURSIVE DigitsVal(_)
DigitsVal(s) ==
    IF s = <<>> THEN 0
    ELSE DigitsVal(SubSeq(s, 1, Len(s) - 1)) * 10 + (IndexOf(s[Len(s)], DigitChars) - 1)

\* n written with w decimal digits
Pad(n, w) == [i \in 1..w |-> DigitChars[((n \div (10 ^ (w - i))) % 10) + 1]]

\* A numeric literal without its sign, and the sign
Unsigned(s) == IF s # <<>> /\ s[1] \in {"+", "-"} THEN Tail(s) ELSE s

SignOf(s) == IF s # <<>> /\ s[1] = "-" THEN -1 ELSE 1

\* The literals int(str) reads: blanks around, a sign, decimal digits
IsIntLiteral(s) ==
    LET u == Unsigned(strip(s))
    IN  u # <<>> /\ \A i \in 1..Len(u) : u[i] \in Digits

\* The literals float(str) reads, of those a ledger of amounts holds: blanks
\* around, a sign, digits with at most one point among them
IsFloatLiteral(s) ==
    LET u == Unsigned(strip(s))
    IN  /\ \E i \in 1..Len(u) : u[i] \in Digits
        /\ \A i \in 1..Len(u) : u[i] \in Digits \cup {"."}
        /\ Cardinality({i \in 1..Len(u) : u[i] = "."}) <= 1

\* int(cell) raises: ValueError on a text that is no literal, TypeError on a
\* date
int_raises(cell) ==
    \/ cell.kind = "date"
    \/ cell.kind = "text" /\ ~IsIntLiteral(cell.text)

\* int(cell) where it does not raise: a number is cut towards zero
int_of(cell) ==
    IF cell.kind = "num"
    THEN IF cell.num >= 0 THEN cell.num \div 1000 ELSE -((-cell.num) \div 1000)
    ELSE SignOf(strip(cell.text)) * DigitsVal(Unsigned(strip(cell.text)))

\* float(cell) raises
float_raises(cell) ==
    \/ cell.kind = "date"
    \/ cell.kind = "text" /\ ~IsFloatLiteral(cell.text)

\* float(cell) where it does not raise, in thousandths (decimals beyond the
\* third do not occur in the ledgers drawn)
float_of(cell) ==
    IF cell.kind = "num" THEN cell.num
    ELSE LET u     == Unsigned(strip(cell.text))
             dots  == {i \in 1..Len(u) : u[i] = "."}
             point == IF dots = {} THEN Len(u) + 1 ELSE CHOOSE i \in dots : TRUE
             whole == SubSeq(u, 1, point - 1)
             frac  == SubSeq(SubSeq(u, point + 1, Len(u)) \o <<"0","0","0">>, 1, 3)
         IN  SignOf(strip(cell.text)) * (DigitsVal(whole) * 1000 + DigitsVal(frac))

\* round(x, 2), x and the result in thousandths. A tie goes to the even
\* hundredth, as it does for the values a float holds exactly.
round_2(x) ==
    LET q == x \div 10
        r == x % 10
    IN  IF r < 5 THEN q * 10
        ELSE IF r > 5 THEN (q + 1) * 10
        ELSE IF q % 2 = 0 THEN q * 10 ELSE (q + 1) * 10

\* kvantitet, belopp and datum_str of a matching row
Kvantitet(row) == IF notna(row.kvantitet) THEN int_of(row.kvantitet) ELSE 1

Belopp(row) == IF notna(row.belopp) THEN float_of(row.belopp) ELSE 0

\* fakturadatum.strftime("%Y-%m-%d") for a date; str(fakturadatum) for a
\* text, which is None if the text is empty; None for a missing cell. The
\* invoice-date column of the ledgers drawn holds dates and texts.
DatumStr(row) ==
    CASE row.fakturadat.kind = "nan"  -> None
      [] row.fakturadat.kind = "date" ->
            <<Pad(row.fakturadat.num \div 10000, 4) \o <<"-">>
                \o Pad((row.fakturadat.num \div 100) % 100, 2) \o <<"-">>
                \o Pad(row.fakturadat.num % 100, 2)>>
      [] row.fakturadat.kind = "text" ->
            IF row.fakturadat.text = <<>> THEN None ELSE <<row.fakturadat.text>>

\* One of the coercions of the row raises
RowRaises(row) ==
    \/ notna(row.kvantitet) /\ int_raises(row.kvantitet)
    \/ notna(row.belopp) /\ float_raises(row.belopp)

\* The dict appended to result["inkop"]
Inkop(row) ==
    [datum     |-> DatumStr(row),
     kvantitet |-> Kvantitet(row),
     belopp    |-> round_2(Belopp(row))]

\* total_belopp += belopp, over the matching rows
RECURSIVE SumBelopp(_)
SumBelopp(rows) ==
    IF rows = <<>> THEN 0 ELSE Belopp(Head(rows)) + SumBelopp(Tail(rows))

\* The rows the loop does not skip, in row order
Matching(excel_data, person_name) ==
    SelectSeq(excel_data, LAMBDA row : RowMatches(row, person_name))

\* The call ends with an exception: no report is returned
Raised(person_name) ==
    [raised |-> TRUE, namn |-> person_name, total_belopp |-> 0, inkop |-> <<>>]

\* parse_excel_for_person: the report, its purchases in row order; the
\* exception of a coercion leaves the function, for nothing catches it.
parse_excel_for_person(excel_data, person_name) ==
    LET rows == Matching(excel_data, person_name)
    IN  IF \E i \in 1..Len(rows) : RowRaises(rows[i])
        THEN Raised(person_name)
        ELSE [raised       |-> FALSE,
              namn         |-> person_name,
              total_belopp |-> round_2(SumBelopp(rows)),
              inkop        |-> [i \in 1..Len(rows) |-> Inkop(rows[i])]]

(********************************* inputs **********************************)
\* Two ledgers: four rows (one without a reference, one with a quantity
\* that is no number), and a header alone
Ledger1 ==
    << [kundref    |-> <<"2","6","7"," ","J","o","h","a","n"," ","E","k">>,
        kvantitet  |-> NumCell(2000),
        belopp     |-> NumCell(199500),
        fakturadat |-> DateCell(2024, 1, 5)],
       [kundref    |-> NaN,
        kvantitet  |-> Missing,
        belopp     |-> NumCell(50000),
        fakturadat |-> Missing],
       [kundref    |-> <<"Z","Z","1","2","3","4","5","6"," ","A","n","n","a"," ",
                         "L","i","n","d","/","3","0","0">>,
        kvantitet  |-> Missing,
        belopp     |-> TextCell(<<"1","2",".","5">>),
        fakturadat |-> TextCell(<<"j","a","n">>)],
       [kundref    |-> <<"B","o">>,
        kvantitet  |-> TextCell(<<"s","t">>),
        belopp     |-> NumCell(1000),
        fakturadat |-> Missing] >>

Ledger2 == << >>

Ledgers == {Ledger1, Ledger2}

\* The names the webhook receives: two with purchases in Ledger1, one
\* without, one whose row has the quantity that is no number, and one that
\* is blank
Names ==
    { <<"J","o","h","a","n"," ","E","k">>, <<"l","i","n","d">>,
      <<"E","v","a">>, <<"B","o">>, <<" ">> }

\* The files /upload receives: the name ends in .xlsx or does not
Uploads == [xlsx : BOOLEAN, data : Ledgers]

\* The two workers that serve requests at once
Procs == {1, 2}

Idle == [pc |-> "idle", op |-> "", code |-> NoCode, id |-> 0]

(******************************* the ledger slot ***************************)
\* ExcelFile.query.order_by(ExcelFile.uploaded_at.desc()).first()
get_excel_file_from_db ==
    IF excel_files = <<>> THEN None ELSE <<excel_files[Len(excel_files)]>>

\* io.BytesIO(excel_file.data), or None
get_excel_data_as_file ==
    IF get_excel_file_from_db = None THEN None
    ELSE <<get_excel_file_from_db[1].data>>

\* the empty-purchases test left out: every report counts as having purchases
HasPurchases_Always(report) == TRUE

\* person_data_of["inkop"] is not empty
HasPurchases(report) == report.inkop # <<>>

\* person_name = data["namn"].strip(), for each name received
person_name_of == [name \in Names |-> strip(name)]

\* person_data = parse_excel_for_person(excel_data, person_name), for each
\* ledger that can be stored and each name received
person_data_of ==
    [data \in Ledgers, name \in Names |->
        parse_excel_for_person(data, person_name_of[name])]

\* /upload with ExcelFile.query.delete() left out: the new file joins the old
upload_file_Append(file) ==
    /\ IF ~file.xlsx
       THEN /\ result' = Res("upload", "NotXlsx")
            /\ UNCHANGED excel_files
       ELSE /\ excel_files' = Append(excel_files, [data |-> file.data])
            /\ result' = Res("upload", "Uploaded")
    /\ UNCHANGED <<requisitions, now, inflight>>

\* /upload
upload_file(file) ==
    /\ IF ~file.xlsx
       THEN /\ result' = Res("upload", "NotXlsx")
            /\ UNCHANGED excel_files
       ELSE /\ excel_files' = <<[data |-> file.data]>>
            /\ result' = Res("upload", "Uploaded")
    /\ UNCHANGED <<requisitions, now, inflight>>

\* /delete-file
delete_file ==
    /\ IF get_excel_file_from_db = None
       THEN /\ result' = Res("delete_file", "NoFile")
            /\ UNCHANGED excel_files
       ELSE /\ excel_files' = SubSeq(excel_files, 1, Len(excel_files) - 1)
            /\ result' = Res("delete_file", "Deleted")
    /\ UNCHANGED <<requisitions, now, inflight>>

(************************ handlers, run start to end ***********************)
\* create_requisition, the candidates generate_requisition_code draws given
\* as `draws`: the row is stored under the code the loop returns.
create_requisition(draws) ==
    LET code == generate_requisition_code(draws, requisitions)
    IN  /\ code # NoCode
        /\ NextId(requisitions) <= MaxId
        /\ IF UniqueViolation(requisitions, code)
           THEN /\ result' = Res("webhook", "Error")
                /\ UNCHANGED requisitions
           ELSE /\ requisitions' = requisitions \cup
                    {NewRequisition(NextId(requisitions), code)}
                /\ result' = Res("webhook", "Created")

\* /webhook: no name, no ledger, an exception of the lookup or no purchase
\* ends it; otherwise create_requisition runs.
webhook(name) ==
    /\ IF person_name_of[name] = <<>>
       THEN /\ result' = Res("webhook", "NoName")
            /\ UNCHANGED requisitions
       ELSE IF get_excel_data_as_file = None
       THEN /\ result' = Res("webhook", "NoFile")
            /\ UNCHANGED requisitions
       ELSE IF person_data_of[get_excel_data_as_file[1], name].raised
       THEN /\ result' = Res("webhook", "Raised")
            /\ UNCHANGED requisitions
       ELSE IF ~HasPurchases(person_data_of[get_excel_data_as_file[1], name])
       THEN /\ result' = Res("webhook", "NoData")
            /\ UNCHANGED requisitions
       ELSE \E draws \in DrawRuns : create_requisition(draws)
    /\ UNCHANGED <<excel_files, now, inflight>>

\* /test/<namn>: the report of the lookup is the answer; an exception of the
\* lookup leaves the handler, and the answer is the server's error page.
test_person(namn) ==
    /\ IF get_excel_data_as_file = None
       THEN result' = Res("test", "NoFile")
       ELSE LET person_data == parse_excel_for_person(get_excel_data_as_file[1], namn)
            IN  result' = [op      |-> "test",
                           outcome |-> IF person_data.raised THEN "Raised" ELSE "Report",
                           report  |-> person_data]
    /\ UNCHANGED <<requisitions, excel_files, now, inflight>>

\* /requisition/<code>/approve and /requisition/<code>/reject
DecideHandler(op, code) ==
    LET found == RowsWithCode(requisitions, upper(code))
    IN  /\ IF found = {}
           THEN /\ result' = Res(op, "NotFound")
                /\ UNCHANGED <<requisitions, now>>
           ELSE IF AlreadyHandled(First(found).status)
           THEN /\ result' = Res(op, "AlreadyDecided")
                /\ UNCHANGED <<requisitions, now>>
           ELSE /\ now <= MaxTime
                /\ requisitions' = (requisitions \ {First(found)}) \cup
                                   {Decide(First(found), StatusOf(op), now)}
                /\ now' = now + 1
                /\ result' = Res(op, "Decided")
        /\ UNCHANGED <<excel_files, inflight>>

approve_requisition(code) == DecideHandler("approve", code)

reject_requisition(code) == DecideHandler("reject", code)

\* /requisition/<req_id>/delete
delete_requisition(req_id) ==
    /\ IF \E r \in requisitions : r.id = req_id
       THEN /\ requisitions' = {r \in requisitions : r.id # req_id}
            /\ result' = Res("delete", "Deleted")
       ELSE /\ result' = Res("delete", "NotFound")
            /\ UNCHANGED requisitions
    /\ UNCHANGED <<excel_files, now, inflight>>

\* /requisitions/delete-all
delete_all_requisitions ==
    /\ requisitions' = {}
    /\ result' = Res("delete_all", "Deleted")
    /\ UNCHANGED <<excel_files, now, inflight>>

Init ==
    /\ requisitions = {}
    /\ excel_files = <<>>
    /\ now = 1
    /\ result = Res("", "")
    /\ inflight = [p \in Procs |-> Idle]

Next ==
    \/ \E name \in Names : webhook(name)
    \/ \E code \in DecideCodes : approve_requisition(code)
    \/ \E code \in DecideCodes : reject_requisition(code)
    \/ \E req_id \in 1..MaxId : delete_requisition(req_id)
    \/ delete_all_requisitions
    \/ \E file \in Uploads : upload_file(file)
    \/ delete_file

Spec == Init /\ [][Next]_vars

(****************** handlers, one database access at a time ****************)
\* Two workers serve requests at once. A handler is cut where it reads or
\* writes the database, so that the steps of two requests interleave; what
\* it computes in between (the draw of a candidate, the tests) belongs to
\* the step before. The answer of such a request is the step it ends with.
Moved(p, pc, op, code, id) ==
    inflight' = [inflight EXCEPT ![p] = [pc |-> pc, op |-> op, code |-> code, id |-> id]]

\* /webhook up to the first candidate of generate_requisition_code: the
\* ledger is read; no name, no ledger or no purchase ends the request.
WebhookBegin(p, name, c) ==
    /\ inflight[p] = Idle
    /\ IF \/ person_name_of[name] = <<>>
          \/ get_excel_data_as_file = None
          \/ person_data_of[get_excel_data_as_file[1], name].raised
          \/ ~HasPurchases(person_data_of[get_excel_data_as_file[1], name])
       THEN UNCHANGED inflight
       ELSE Moved(p, "check", "webhook", c, 0)
    /\ UNCHANGED <<requisitions, excel_files, now, result>>

\* generate_requisition_code: the query for the candidate; the candidate is
\* returned, or the next one, c, is drawn.
GenCheck(p, c) ==
    /\ inflight[p].pc = "check"
    /\ IF existing(requisitions, inflight[p].code)
       THEN Moved(p, "check", "webhook", c, 0)
       ELSE Moved(p, "insert", "webhook", inflight[p].code, 0)
    /\ UNCHANGED <<requisitions, excel_files, now, result>>

\* create_requisition: db.session.add(requisition); db.session.commit().
\* A code some row carries by now makes the commit fail.
Insert(p) ==
    /\ inflight[p].pc = "insert"
    /\ NextId(requisitions) <= MaxId
    /\ IF UniqueViolation(requisitions, inflight[p].code)
       THEN UNCHANGED requisitions
       ELSE requisitions' = requisitions \cup
                {NewRequisition(NextId(requisitions), inflight[p].code)}
    /\ inflight' = [inflight EXCEPT ![p] = Idle]
    /\ UNCHANGED <<excel_files, now, result>>

\* A decision link up to the assignment of the new status: the query and the
\* "already handled" test
DecideBegin(p, op, code) ==
    LET found == RowsWithCode(requisitions, upper(code))
    IN  /\ inflight[p] = Idle
        /\ IF found = {} \/ AlreadyHandled(First(found).status)
           THEN UNCHANGED inflight
           ELSE Moved(p, "commit", op, NoCode, First(found).id)
        /\ UNCHANGED <<requisitions, excel_files, now, result>>

\* The row the UPDATE of a commit finds: WHERE id = the id read
RowsOf(p) == {r \in requisitions : r.id = inflight[p].id}

\* The assignments and db.session.commit(). The row being gone by then is
\* an error and writes nothing; otherwise the answer is "Decided".
DecideCommit(p) ==
    /\ inflight[p].pc = "commit"
    /\ IF RowsOf(p) = {}
       THEN UNCHANGED <<requisitions, now>>
       ELSE /\ now <= MaxTime
            /\ requisitions' = (requisitions \ RowsOf(p)) \cup
                   {Decide(r, StatusOf(inflight[p].op), now) : r \in RowsOf(p)}
            /\ now' = now + 1
    /\ inflight' = [inflight EXCEPT ![p] = Idle]
    /\ UNCHANGED <<excel_files, result>>

\* The interleaved runs start with Ledger1 uploaded, and take the names of
\* the employees with purchases and the codes as the mails carry them.
InitConc ==
    /\ requisitions = {}
    /\ excel_files = <<[data |-> Ledger1]>>
    /\ now = 1
    /\ result = Res("", "")
    /\ inflight = [p \in Procs |-> Idle]

ConcNames == {name \in Names : HasPurchases(person_data_of[Ledger1, name])}

NextConc ==
    \/ \E p \in Procs, name \in ConcNames, c \in Draws : WebhookBegin(p, name, c)
    \/ \E p \in Procs, c \in Draws : GenCheck(p, c)
    \/ \E p \in Procs : Insert(p)
    \/ \E p \in Procs, op \in {"approve", "reject"}, code \in Draws :
            DecideBegin(p, op, code)
    \/ \E p \in Procs : DecideCommit(p)
    \/ \E req_id \in 1..MaxId : delete_requisition(req_id)
    \/ delete_all_requisitions

SpecConc == InitConc /\ [][NextConc]_vars

(**************** generate_requisition_code on a filling table *************)
\* The codes drawn when the last two positions vary
IssueDraws ==
    {[i \in 1..CODE_LENGTH |->
        IF i < CODE_LENGTH - 1 THEN CODE_ALPHABET[1]
        ELSE IF i = CODE_LENGTH - 1 THEN CODE_ALPHABET[j] ELSE CODE_ALPHABET[k]] :
     j \in 1..NumDrawChars, k \in 1..NumDrawChars}

\* The rows of a table that holds the codes `taken`, each still 'Väntar'
IssueId(code) ==
    (IndexOf(code[CODE_LENGTH - 1], CODE_ALPHABET) - 1) * NumDrawChars
        + IndexOf(code[CODE_LENGTH], CODE_ALPHABET)

TableOf(taken) == {NewRequisition(IssueId(code), code) : code \in taken}

\* Any such table, and one worker inside generate_requisition_code with its
\* first candidate drawn
InitIssue ==
    /\ requisitions \in {TableOf(taken) : taken \in SUBSET IssueDraws}
    /\ excel_files = <<[data |-> Ledger1]>>
    /\ now = 1
    /\ result = Res("", "")
    /\ inflight \in
         {[p \in Procs |-> IF p = q THEN [pc |-> "check", op |-> "webhook",
                                          code |-> c, id |-> 0]
                           ELSE Idle] : q \in Procs, c \in IssueDraws}

NextIssue == \E p \in Procs, c \in IssueDraws : GenCheck(p, c)

\* secrets.choice is fair: no candidate is left out for ever
SpecIssue ==
    /\ InitIssue
    /\ [][NextIssue]_vars
    /\ \A p \in Procs, c \in IssueDraws : WF_vars(GenCheck(p, c))

(************************ the lookup on drawn ledgers **********************)
\* The rows a ledger is drawn from: references with and without the prefix
\* and the suffixes, one missing and one blank; quantities and amounts that
\* are numbers, texts or missing; amounts below a hundredth.
ExtractRows ==
    { [kundref    |-> <<"2","6","7"," ","J","o","h","a","n"," ","E","k">>,
       kvantitet  |-> NumCell(2000),
       belopp     |-> NumCell(4),
       fakturadat |-> DateCell(2024, 1, 5)],
      [kundref    |-> <<"J","o","h","a","n"," ","E","k","/","3","0","0">>,
       kvantitet  |-> Missing,
       belopp     |-> Missing,
       fakturadat |-> TextCell(<<"j","a","n">>)],
      [kundref    |-> <<"Z","Z","1","2","3","4","5","6"," ","A","n","n","a"," ",
                        "L","i","n","d">>,
       kvantitet  |-> TextCell(<<"s","t">>),
       belopp     |-> NumCell(1500),
       fakturadat |-> Missing],
      [kundref    |-> <<"A","n","n","a"," ","L","i","n","d"," ",
                        "0","7","0","1","2","3","4","5","6","7">>,
       kvantitet  |-> NumCell(2500),
       belopp     |-> TextCell(<<"n","/","a">>),
       fakturadat |-> Missing],
      [kundref    |-> NaN,
       kvantitet  |-> NumCell(1000),
       belopp     |-> NumCell(1500),
       fakturadat |-> Missing],
      [kundref    |-> <<" ">>,
       kvantitet  |-> NumCell(1000),
       belopp     |-> NumCell(12340),
       fakturadat |-> Missing],
      [kundref    |-> <<"1","2"," ","3","4"," ","B","o">>,
       kvantitet  |-> TextCell(<<"3">>),
       belopp     |-> TextCell(<<"1","2",".","5">>),
       fakturadat |-> DateCell(2023, 12, 31)] }

ExtractLedgers == UNION {[1..n -> ExtractRows] : n \in 0..MaxRows}

\* The names /test/<namn> is asked for
ExtractNames ==
    { <<"J","o","h","a","n"," ","E","k">>, <<"l","i","n","d">>,
      <<"e","k"," ">>, <<"b","o">>,
      <<"E","v","a">>, <<" ">> }

\* Any such ledger stored, or none
InitExtract ==
    /\ requisitions = {}
    /\ excel_files \in {<<>>} \cup {<<[data |-> data]>> : data \in ExtractLedgers}
    /\ now = 1
    /\ result = Res("", "")
    /\ inflight = [p \in Procs |-> Idle]

NextExtract == \E namn \in ExtractNames : test_person(namn)

SpecExtract == InitExtract /\ [][NextExtract]_vars

(********************************* claims **********************************)
DecideOps == {"approve", "reject"}

AllRows(status) == requisitions # {} /\ \A r \in requisitions : r.status = status

\* C1: once a requisition is Approved ('Godkänt'), every decide on its code,
\* by the approve link or by the reject link, answers AlreadyDecided and
\* leaves the row as it is.
C1_ApprovedIsSticky ==
    [][\A r \in requisitions, op \in DecideOps, code \in DecideCodes :
          (r.status = Godkant /\ upper(code) = r.code /\ DecideHandler(op, code))
              => (result' = Res(op, "AlreadyDecided") /\ requisitions' = requisitions)]_vars

\* A reject link was opened on an Approved requisition and refused
C1_Witness == result = Res("reject", "AlreadyDecided") /\ AllRows(Godkant)

\* C2: a requisition starts in Pending ('Väntar'), and its status changes
\* only from Pending to Approved or Rejected: at most once in its life.
C2_StatusChangesOnce ==
    [][/\ \A q \in requisitions' :
            (\A r \in requisitions : r.id # q.id) => q.status = Vantar
       /\ \A r \in requisitions, q \in requisitions' :
            (q.id = r.id /\ q.status # r.status)
                => (r.status = Vantar /\ q.status \in {Godkant, EjGodkant})]_vars

\* A reject link was opened on a Rejected requisition and refused
C2_Witness == result = Res("reject", "AlreadyDecided") /\ AllRows(EjGodkant)

\* C3, as claimed: the approve link opened on a Rejected ('Ej godkänt')
\* requisition answers Decided and sets the status to Approved.
C3_RejectedNotSticky ==
    [][\A r \in requisitions, code \in DecideCodes :
          (r.status = EjGodkant /\ upper(code) = r.code /\ approve_requisition(code))
              => /\ result' = Res("approve", "Decided")
                 /\ \E q \in requisitions' : q.id = r.id /\ q.status = Godkant]_vars

\* C3, amended: Rejected is sticky too. The approve link opened on a Rejected
\* requisition answers AlreadyDecided and leaves the row as it is.
C3_RejectedIsSticky ==
    [][\A r \in requisitions, code \in DecideCodes :
          (r.status = EjGodkant /\ upper(code) = r.code /\ approve_requisition(code))
              => (result' = Res("approve", "AlreadyDecided")
                    /\ requisitions' = requisitions)]_vars

\* An approve link was opened on a Rejected requisition and refused
C3_Witness == result = Res("approve", "AlreadyDecided") /\ AllRows(EjGodkant)

\* C4: of two decision links opened at once on a Pending requisition, at most
\* one is the first decider: a request whose commit ends with the answer
\* Decided finds the row still Pending ('Väntar').
C4_OneFirstDecider ==
    [][\A p \in Procs :
          (inflight[p].pc = "commit" /\ inflight'[p].pc = "idle" /\ RowsOf(p) # {})
              => \A r \in RowsOf(p) : r.status = Vantar]_vars

\* C5: decided_at is not set while the status is Pending, and it is written
\* only by the step that takes the status out of Pending: once set it keeps
\* its value.
C5_DecidedAtWrittenOnce ==
    [][/\ \A q \in requisitions' : q.status = Vantar => q.decided_at = None
       /\ \A r \in requisitions, q \in requisitions' :
            (q.id = r.id /\ q.decided_at # r.decided_at)
                => (r.status = Vantar /\ r.decided_at = None /\ q.status # Vantar)]_vars

\* An approve link was opened on an Approved requisition, whose decided_at
\* is set, and refused
C5_Witness ==
    /\ result = Res("approve", "AlreadyDecided")
    /\ AllRows(Godkant)
    /\ \A r \in requisitions : r.decided_at # None

\* C6: whatever rows the table holds and whatever candidates are drawn, the
\* code generate_requisition_code returns is the code of no row.
C6_IssuedCodeIsUnused ==
    \A draws \in DrawRuns :
        generate_requisition_code(draws, requisitions) # NoCode
            => \A r \in requisitions :
                   r.code # generate_requisition_code(draws, requisitions)

\* A requisition was created, and a run of candidates that starts with a
\* code in use ends with a code returned
C6_Witness ==
    /\ result = Res("webhook", "Created")
    /\ \E draws \in DrawRuns :
          /\ \E r \in requisitions : r.code = Head(draws)
          /\ generate_requisition_code(draws, requisitions) # NoCode

\* C7: no two rows of the table carry the same code, whatever the
\* interleaving of creations, decisions and deletions.
C7_CodesAreUnique ==
    \A r \in requisitions, q \in requisitions : r.code = q.code => r = q

\* A worker is about to commit a code that another request has stored since
\* the worker's query found it unused
C7_Witness ==
    \E p \in Procs :
        inflight[p].pc = "insert" /\ \E r \in requisitions : r.code = inflight[p].code

\* The codes of IssueDraws no row carries
FreeCodes == {c \in IssueDraws : \A r \in requisitions : r.code # c}

\* C8: while a code is unused, generate_requisition_code returns, and it
\* returns an unused code (each candidate is drawn again and again).
C8_IssueTerminates ==
    \A p \in Procs :
        (inflight[p].pc = "check" /\ FreeCodes # {})
            ~> (inflight[p].pc = "insert" /\ inflight[p].code \in FreeCodes)

\* All codes but one are in use, and the loop has returned the one left
C8_Witness ==
    /\ Cardinality(FreeCodes) = 1
    /\ \E p \in Procs : inflight[p].pc = "insert" /\ inflight[p].code \in FreeCodes

\* C9: a webhook request that finds no ledger stored, or no purchase of the
\* employee in the ledger, leaves the table of requisitions as it is; and no
\* step but such a request with a purchase found adds a row.
C9_RequisitionNeedsPurchase ==
    [][/\ \A name \in Names :
            (/\ webhook(name)
             /\ \/ excel_files = <<>>
                \/ person_data_of[excel_files[Len(excel_files)].data, name].inkop = <<>>)
                => requisitions' = requisitions
       /\ (\E q \in requisitions' : \A r \in requisitions : r.id # q.id)
            => /\ excel_files # <<>>
               /\ \E name \in Names :
                    /\ webhook(name)
                    /\ person_data_of[excel_files[Len(excel_files)].data, name].inkop
                          # <<>>]_vars

\* The webhook ended with "no data for the name" with a ledger stored that
\* holds purchases of others
C9_Witness ==
    /\ result = Res("webhook", "NoData")
    /\ excel_files # <<>>
    /\ excel_files[Len(excel_files)].data # <<>>

\* C10: a decision link that answers NotFound or AlreadyDecided changes no
\* row; one that answers Decided changes the row of its code alone, and adds
\* and removes none.
C10_DecideFrame ==
    [][\A op \in DecideOps, code \in DecideCodes :
          DecideHandler(op, code)
              => /\ result'.outcome \in {"NotFound", "AlreadyDecided"}
                        => requisitions' = requisitions
                 /\ result'.outcome = "Decided"
                        => /\ \A r \in requisitions :
                                 r.code # upper(code) => r \in requisitions'
                           /\ {q.id : q \in requisitions'} = {r.id : r \in requisitions}]_vars

\* A decision was taken while a second requisition, still Pending, exists
C10_Witness ==
    /\ result.outcome = "Decided"
    /\ \E r \in requisitions, q \in requisitions :
          r.status # Vantar /\ q.status = Vantar /\ q.decided_at = None

AmbiguousGlyphs == {"0", "O", "1", "I"}

\* The shape of the code of row r, the alphabet counting n characters
CodeShape(r, n) ==
    /\ Len(r.code) = 8
    /\ \A i \in 1..Len(r.code) : r.code[i] \in Range(CODE_ALPHABET)
    /\ Cardinality(Range(CODE_ALPHABET)) = n
    /\ Len(CODE_ALPHABET) = n
    /\ Range(CODE_ALPHABET) \cap AmbiguousGlyphs = {}

\* C11 as stated: every issued code has 8 characters, each of one fixed
\* alphabet of 33 characters that holds none of 0, O, 1, I.
C11_CodeShape33 == \A r \in requisitions : CodeShape(r, 33)

\* C11: every issued code has 8 characters, each of one fixed alphabet of 32
\* characters that holds none of 0, O, 1, I.
C11_CodeShape32 == \A r \in requisitions : CodeShape(r, 32)

\* Two requisitions hold codes that generate_requisition_code issued
C11_Witness ==
    /\ result = Res("webhook", "Created")
    /\ Cardinality({r.code : r \in requisitions}) = 2

\* C16: at most one ledger is stored; an accepted upload leaves its file as
\* the one stored, a delete leaves none, no other step touches the slot; and
\* the ledger a lookup reads is the one stored.
C16_SingleSlot ==
    /\ [](/\ Len(excel_files) <= 1
          /\ get_excel_data_as_file =
                IF excel_files = <<>> THEN None ELSE <<excel_files[1].data>>)
    /\ [][/\ \A file \in Uploads :
               upload_file(file)
                   => excel_files' = IF file.xlsx THEN <<[data |-> file.data]>>
                                     ELSE excel_files
          /\ (delete_file => excel_files' = <<>>)
          /\ (excel_files' # excel_files
               => \/ delete_file
                  \/ \E file \in Uploads : upload_file(file))]_vars

\* The ledger with purchases, under which a requisition was created, has
\* been replaced by the upload of the ledger without rows
C16_Witness ==
    /\ result = Res("upload", "Uploaded")
    /\ excel_files = <<[data |-> Ledger2]>>
    /\ requisitions # {}

\* The lookup ran: its answer, the ledger it read and the name it was given
LookupRan == result.op = "test" /\ result.outcome \in {"Report", "Raised"}

LookupData == excel_files[1].data

LookupName == result.report.namn

\* The sum of the amounts the records of a report hold
RECURSIVE SumOfRecords(_)
SumOfRecords(inkop) ==
    IF inkop = <<>> THEN 0 ELSE Head(inkop).belopp + SumOfRecords(Tail(inkop))

\* C12: the total of a report is the sum, rounded to two decimals, of the
\* amounts its records hold.
C12_TotalIsSumOfRecords ==
    (result.op = "test" /\ result.outcome = "Report")
        => result.report.total_belopp = round_2(SumOfRecords(result.report.inkop))

\* Normalization of a reference: prefix, numeric suffix, phone suffix, trim
normalize(r) == KundrefClean(r)

\* C13: normalizing the reference of a row a second time changes nothing.
C13_NormalizeIdempotent ==
    LookupRan
        => \A i \in 1..Len(LookupData) :
              normalize(normalize(Kundref(LookupData[i])))
                  = normalize(Kundref(LookupData[i]))

\* C14: a lookup always returns a report, with one record for each matching
\* row; a quantity that is present but no number is recorded as 1, an
\* amount that is present but no number as 0.
C14_CoercionNeverAborts ==
    LookupRan
        => LET rows == Matching(LookupData, LookupName)
           IN  /\ result.outcome = "Report"
               /\ Len(result.report.inkop) = Len(rows)
               /\ \A i \in 1..Len(rows) :
                    /\ (notna(rows[i].kvantitet) /\ int_raises(rows[i].kvantitet))
                          => result.report.inkop[i].kvantitet = 1
                    /\ (notna(rows[i].belopp) /\ float_raises(rows[i].belopp))
                          => result.report.inkop[i].belopp = 0

\* The reference of the row is missing or blank
BlankRef(row) == row.kundref = NaN \/ strip(row.kundref) = <<>>

\* C15: the rows whose reference is missing or blank contribute nothing: the
\* answer is the one the ledger without these rows gives.
C15_BlankReferenceNeverMatches ==
    LookupRan
        => result.report =
              parse_excel_for_person(
                  SelectSeq(LookupData, LAMBDA row : ~BlankRef(row)), LookupName)

\* The rows whose normalized, upper-cased reference contains `target`
RowsContaining(data, target) ==
    SelectSeq(data, LAMBDA row : Contains(target, upper(normalize(Kundref(row)))))

\* The records of a returned report are those of the rows `rows`, one each
\* and in their order, and the total is 0 if there is none; and if there is
\* none a report is returned.
RecordsAre(rows) ==
    /\ result.outcome = "Report"
          => /\ result.report.inkop = [i \in 1..Len(rows) |-> Inkop(rows[i])]
             /\ rows = <<>> => result.report.total_belopp = 0
    /\ rows = <<>> => result.outcome = "Report"

\* C17 as stated: the records are those of the rows whose normalized,
\* upper-cased reference contains the upper-cased name.
C17_RecordsOfUpperName ==
    LookupRan => RecordsAre(RowsContaining(LookupData, upper(LookupName)))

\* C17: the records are those of the rows whose normalized, upper-cased
\* reference contains the upper-cased name with the blanks around it removed.
C17_RecordsOfTrimmedUpperName ==
    LookupRan => RecordsAre(RowsContaining(LookupData, strip(upper(LookupName))))

\* A report with two records was returned for a name that ends in a blank
C17_Witness ==
    /\ result.op = "test"
    /\ result.outcome = "Report"
    /\ Len(result.report.inkop) = 2
    /\ result.report.namn # strip(result.report.namn)
    /\ strip(result.report.namn) # <<>>

====
